---- MODULE Spec2Model ----
(***************************************************************************)
(* tsvfirst: a streaming filter that prints the first line seen for each   *)
(* key, the key being the concatenation of selected fields of the line.    *)
(*                                                                         *)
(* The repository holds two entry points over the same read/decide/write   *)
(* loop: src/main.rs (RunConfig, one input stream handed to run) and       *)
(* src/tsvfirst.rs with src/config.rs (Config, a builder, and get_reader   *)
(* chaining several inputs).  Both are modelled; `api` says which one a    *)
(* behaviour follows.                                                      *)
(*                                                                         *)
(* Bytes are their ASCII codes; a line, a key and the sink's content are   *)
(* sequences of bytes.  A field-specification argument is a sequence of    *)
(* one-character strings.                                                  *)
(***************************************************************************)
EXTENDS Integers, Sequences, FiniteSets

\* ------------------------------------------------------------------ bytes

\* r"\t", the delimiter of tab mode
TAB == 9
\* 0x0A, the byte read_until stops after
LF == 10
\* ' ', as in the input of tests::basic
SP == 32
\* 'a' and 'b', field contents as in the input of tests::basic
ChA == 97
ChB == 98

\* The ASCII bytes the class \s matches.
Whitespace == {9, 10, 11, 12, 13, 32}

\* ----------------------------------------------------------------- bounds

\* Records in the stream handed to main.rs's run.
MaxRecs == 3
\* Inputs a Config may hold (add_input calls).
MaxInputs == 3
\* Characters of a field-specification argument.
MaxArgLen == 5

\* ------------------------------------------------------- sequence helpers

RECURSIVE Flatten(_)
\* The concatenation of a sequence of byte sequences.
Flatten(ss) == IF ss = <<>> THEN <<>> ELSE Head(ss) \o Flatten(Tail(ss))

IsPrefix(s, t) == Len(s) <= Len(t) /\ SubSeq(t, 1, Len(s)) = s

Range(s) == {s[i] : i \in 1..Len(s)}

\* All sequences over S of length at most n.
SeqsUpTo(S, n) == UNION {[1..k -> S] : k \in 0..n}

\* ----------------------------------------------- the field splitter (regex)

\* A byte the delimiter pattern matches: \s+ is built of these bytes in
\* whitespace mode, \t is this byte in tab mode.
IsDelim(b, whitespace) == IF whitespace THEN b \in Whitespace ELSE b = TAB

RECURSIVE SplitFrom(_, _, _, _, _)
\* splitter.split(&line) from byte i on: `cur` is the field being collected,
\* `acc` the fields already closed.  A match of \s+ is a maximal run, so a
\* delimiter byte that follows a delimiter byte belongs to the same match;
\* a match of \t is one byte.  The text after the last match is the last
\* field, empty when the line ends with a match.  (Releases of the regex
\* crate before 1.4 leave that empty last field out; it adds no byte to a
\* key and nothing follows it, so the key is the same.)
SplitFrom(line, whitespace, i, cur, acc) ==
    IF i > Len(line) THEN Append(acc, cur)
    ELSE IF IsDelim(line[i], whitespace)
         THEN IF whitespace /\ i > 1 /\ IsDelim(line[i - 1], whitespace)
              THEN SplitFrom(line, whitespace, i + 1, cur, acc)
              ELSE SplitFrom(line, whitespace, i + 1, <<>>, Append(acc, cur))
         ELSE SplitFrom(line, whitespace, i + 1, Append(cur, line[i]), acc)

\* The fields splitter.split(&line) yields, in order.
Split(line, whitespace) == SplitFrom(line, whitespace, 1, <<>>, <<>>)

\* ---------------------------------------------------------- key extraction

RECURSIVE KeyFromSkipsIdx(_, _, _, _, _)
\* KeyFrom with fields.nth(idx) in place of fields.nth(idx - last_idx): the
\* fields already consumed are skipped over again.
KeyFromSkipsIdx(flds, spec, k, last_idx, key) ==
    IF k > Len(spec) THEN [key |-> key, overflow |-> FALSE]
    ELSE LET idx == spec[k] IN
         IF idx < last_idx THEN [key |-> key, overflow |-> TRUE]
         ELSE IF idx < Len(flds)
              THEN KeyFromSkipsIdx(SubSeq(flds, idx + 2, Len(flds)), spec,
                                   k + 1, idx + 1, key \o flds[idx + 1])
              ELSE [key |-> key, overflow |-> FALSE]

RECURSIVE KeyFrom(_, _, _, _, _)
\* The loop `for idx in &config.fields`: `flds` is what the iterator
\* `fields` has still to yield, `k` the position in the field
\* specification, `last_idx` the count of fields the iterator has consumed,
\* `key` the bytes accumulated.  fields.nth(n) consumes n fields and yields
\* the next one, or None when there are not that many left, where the loop
\* breaks.  idx - last_idx is a usize subtraction: when idx < last_idx it
\* overflows, which panics in a build with overflow checks and wraps to a
\* huge skip (nth returns None) without.
KeyFrom(flds, spec, k, last_idx, key) ==
    IF k > Len(spec) THEN [key |-> key, overflow |-> FALSE]
    ELSE LET idx == spec[k]
             n == idx - last_idx
         IN IF idx < last_idx THEN [key |-> key, overflow |-> TRUE]
            ELSE IF n < Len(flds)
                 THEN KeyFrom(SubSeq(flds, n + 2, Len(flds)), spec, k + 1,
                              idx + 1, key \o flds[n + 1])
                 ELSE [key |-> key, overflow |-> FALSE]

\* "Build sort key": the key of a line and whether building it overflowed.
BuildKey(line, spec, whitespace) ==
    KeyFrom(Split(line, whitespace), spec, 1, 0, <<>>)

\* The key of a line.
KeyOf(line, spec, whitespace) == BuildKey(line, spec, whitespace).key

\* ------------------------------------------------------- parse_field_spec

Digits == {"0", "1", "2", "3", "4", "5", "6", "7", "8", "9"}

DigitVal(c) ==
    CASE c = "0" -> 0 [] c = "1" -> 1 [] c = "2" -> 2 [] c = "3" -> 3
      [] c = "4" -> 4 [] c = "5" -> 5 [] c = "6" -> 6 [] c = "7" -> 7
      [] c = "8" -> 8 [] c = "9" -> 9

RECURSIVE SplitCommaFrom(_, _, _, _)
\* arg.split(','): one token before each comma and one after the last, so
\* the empty string splits into one empty token.
SplitCommaFrom(arg, i, cur, acc) ==
    IF i > Len(arg) THEN Append(acc, cur)
    ELSE IF arg[i] = ","
         THEN SplitCommaFrom(arg, i + 1, <<>>, Append(acc, cur))
         ELSE SplitCommaFrom(arg, i + 1, Append(cur, arg[i]), acc)

SplitComma(arg) == SplitCommaFrom(arg, 1, <<>>, <<>>)

RECURSIVE DecimalFrom(_, _, _)
DecimalFrom(ds, i, v) ==
    IF i > Len(ds) THEN v ELSE DecimalFrom(ds, i + 1, 10 * v + DigitVal(ds[i]))

\* field.parse::<usize>(): an optional '+', then one or more decimal digits
\* and nothing else; -1 stands for the ParseIntError.  (A value beyond
\* usize::MAX is an error too; a token of at most MaxArgLen digits is below.)
ParseUsize(tok) ==
    LET ds == IF tok # <<>> /\ tok[1] = "+" THEN Tail(tok) ELSE tok IN
    IF ds = <<>> \/ \E i \in 1..Len(ds) : ds[i] \notin Digits
    THEN -1
    ELSE DecimalFrom(ds, 1, 0)

RECURSIVE Insert(_, _)
\* x put into the ascending sequence s.
Insert(x, s) ==
    IF s = <<>> THEN <<x>>
    ELSE IF x <= Head(s) THEN <<x>> \o s ELSE <<Head(s)>> \o Insert(x, Tail(s))

RECURSIVE Sort(_)
\* fields.sort(): ascending, duplicates kept.
Sort(s) == IF s = <<>> THEN <<>> ELSE Insert(Head(s), Sort(Tail(s)))

\* fields.dedup() left out.
DedupMissing(s) == s

RECURSIVE Dedup(_)
\* fields.dedup(): of each run of equal consecutive elements the first.
Dedup(s) ==
    IF Len(s) <= 1 THEN s
    ELSE IF s[1] = s[2] THEN Dedup(Tail(s))
         ELSE <<s[1]>> \o Dedup(Tail(s))

RECURSIVE ParseTokens(_, _, _)
\* The loop of parse_field_spec over the tokens: the error of the first
\* token that does not parse or is zero, else the values minus one, then the
\* empty check, sort and dedup.
ParseTokens(toks, i, fields) ==
    IF i > Len(toks)
    THEN IF fields = <<>>
         THEN [ok |-> FALSE, err |-> "no fields specified", fields |-> <<>>]
         ELSE [ok |-> TRUE, err |-> "", fields |-> Dedup(Sort(fields))]
    ELSE LET field == ParseUsize(toks[i]) IN
         IF field < 0
         THEN [ok |-> FALSE, err |-> "ParseIntError", fields |-> <<>>]
         ELSE IF field = 0
              THEN [ok |-> FALSE,
                    err |-> "output field is 1-indexed; 0 is not valid",
                    fields |-> <<>>]
              ELSE ParseTokens(toks, i + 1, Append(fields, field - 1))

\* parse_field_spec(arg).
parse_field_spec(arg) == ParseTokens(SplitComma(arg), 1, <<>>)

\* ------------------------------------------------------------ the readers

RECURSIVE ReadUntilNoChain(_, _, _, _)
\* read_until on readers that are not chained: the end of a source ends
\* the line that was being read.
ReadUntilNoChain(sources, i, p, acc) ==
    IF i > Len(sources) THEN [line |-> acc, idx |-> i, pos |-> p]
    ELSE IF p > Len(sources[i])
         THEN IF acc # <<>> THEN [line |-> acc, idx |-> i + 1, pos |-> 1]
              ELSE ReadUntilNoChain(sources, i + 1, 1, acc)
    ELSE IF sources[i][p] = LF
         THEN [line |-> Append(acc, LF), idx |-> i, pos |-> p + 1]
         ELSE ReadUntilNoChain(sources, i, p + 1, Append(acc, sources[i][p]))

RECURSIVE ReadUntilFrom(_, _, _, _)
\* reader.read_until(0x0A, &mut line) on the chain of the opened sources
\* (one source for main.rs's BufReader): bytes are appended up to and with
\* the first line feed; a source that is exhausted hands over to the next
\* one (Chain moves on when the first reader's buffer comes back empty),
\* and the line ends without a line feed only when every source is
\* exhausted.  i is the current source, p the next byte of it.
ReadUntilFrom(sources, i, p, acc) ==
    IF i > Len(sources) THEN [line |-> acc, idx |-> i, pos |-> p]
    ELSE IF p > Len(sources[i]) THEN ReadUntilFrom(sources, i + 1, 1, acc)
    ELSE IF sources[i][p] = LF
         THEN [line |-> Append(acc, LF), idx |-> i, pos |-> p + 1]
         ELSE ReadUntilFrom(sources, i, p + 1, Append(acc, sources[i][p]))

read_until(sources, i, p) == ReadUntilFrom(sources, i, p, <<>>)

\* The names an input may have: "-" is standard input, "f" a file.
InputNames == {"-", "f"}
FileNames == InputNames \ {"-"}

RECURSIVE OpenFromUnchecked(_, _, _, _, _, _)
\* The loop of get_reader without the stdin_used check.
OpenFromUnchecked(inputs, fs, stdin, i, stdin_used, acc) ==
    IF i > Len(inputs) THEN [err |-> "", sources |-> acc]
    ELSE IF inputs[i] = "-"
         THEN OpenFromUnchecked(inputs, fs, stdin, i + 1, TRUE,
                                Append(acc, stdin))
         ELSE IF ~fs[inputs[i]].exists
              THEN [err |-> "open", sources |-> <<>>]
              ELSE OpenFromUnchecked(inputs, fs, stdin, i + 1, stdin_used,
                                     Append(acc, fs[inputs[i]].data))

RECURSIVE OpenFrom(_, _, _, _, _, _)
\* The loop of Config::get_reader over the inputs: the second "-" is the
\* error "stdin used twice", a file that cannot be opened is the error of
\* fs::File::open, and each reader opened is chained after the ones before.
OpenFrom(inputs, fs, stdin, i, stdin_used, acc) ==
    IF i > Len(inputs) THEN [err |-> "", sources |-> acc]
    ELSE IF inputs[i] = "-"
         THEN IF stdin_used
              THEN [err |-> "stdin used twice", sources |-> <<>>]
              ELSE OpenFrom(inputs, fs, stdin, i + 1, TRUE, Append(acc, stdin))
         ELSE IF ~fs[inputs[i]].exists
              THEN [err |-> "open", sources |-> <<>>]
              ELSE OpenFrom(inputs, fs, stdin, i + 1, stdin_used,
                            Append(acc, fs[inputs[i]].data))

\* Config::get_reader: no input means standard input.
get_reader(inputs, fs, stdin) ==
    OpenFrom(IF inputs = <<>> THEN <<"-">> ELSE inputs, fs, stdin, 1, FALSE, <<>>)

\* ------------------------------------------------------------ the decision

\* Decision with the unsorted branch lost: every record is compared with
\* `last` only, whatever config.sorted says.
DecisionAdjacentOnly(sorted, seenKeys, lastKey, key) ==
    IF lastKey = <<key>>
    THEN [print |-> FALSE, seen |-> seenKeys, last |-> lastKey]
    ELSE [print |-> TRUE, seen |-> seenKeys, last |-> <<key>>]

\* Decision with `last` a plain buffer that starts empty instead of an
\* Option: a first record with an empty key looks like a repetition.
DecisionNoneIsEmpty(sorted, seenKeys, lastKey, key) ==
    IF sorted
    THEN IF lastKey = <<key>> \/ (lastKey = <<>> /\ key = <<>>)
         THEN [print |-> FALSE, seen |-> seenKeys, last |-> lastKey]
         ELSE [print |-> TRUE, seen |-> seenKeys, last |-> <<key>>]
    ELSE [print |-> key \notin seenKeys,
          seen |-> seenKeys \cup {key},
          last |-> lastKey]

\* Decision with `match last.take()`: a drop leaves `last` empty, so the
\* record after a dropped one is always printed.
DecisionTakesLast(sorted, seenKeys, lastKey, key) ==
    IF sorted
    THEN IF lastKey = <<key>>
         THEN [print |-> FALSE, seen |-> seenKeys, last |-> <<>>]
         ELSE [print |-> TRUE, seen |-> seenKeys, last |-> <<key>>]
    ELSE [print |-> key \notin seenKeys,
          seen |-> seenKeys \cup {key},
          last |-> lastKey]

\* Decision with seen.insert(key) done before the branch on config.sorted:
\* sorted mode fills the set as well.
DecisionAlwaysInserts(sorted, seenKeys, lastKey, key) ==
    IF sorted
    THEN IF lastKey = <<key>>
         THEN [print |-> FALSE, seen |-> seenKeys \cup {key}, last |-> lastKey]
         ELSE [print |-> TRUE, seen |-> seenKeys \cup {key}, last |-> <<key>>]
    ELSE [print |-> key \notin seenKeys,
          seen |-> seenKeys \cup {key},
          last |-> lastKey]

\* Decision with !seen.contains(&key) in place of seen.insert(key): the set
\* is asked and never filled.
DecisionNeverInserts(sorted, seenKeys, lastKey, key) ==
    IF sorted
    THEN IF lastKey = <<key>>
         THEN [print |-> FALSE, seen |-> seenKeys, last |-> lastKey]
         ELSE [print |-> TRUE, seen |-> seenKeys, last |-> <<key>>]
    ELSE [print |-> key \notin seenKeys, seen |-> seenKeys, last |-> lastKey]

\* should_print and the occurrence memory after it: in sorted mode the
\* record is dropped when `last` holds its key and otherwise becomes `last`;
\* in unsorted mode seen.insert(key) tells whether the key is new.  `last`
\* is <<>> for None and <<k>> for Some(k).
Decision(sorted, seenKeys, lastKey, key) ==
    IF sorted
    THEN IF lastKey = <<key>>
         THEN [print |-> FALSE, seen |-> seenKeys, last |-> lastKey]
         ELSE [print |-> TRUE, seen |-> seenKeys, last |-> <<key>>]
    ELSE [print |-> key \notin seenKeys,
          seen |-> seenKeys \cup {key},
          last |-> lastKey]

\* ------------------------------------------------------------- the inputs

\* The bodies of the records of an input stream (a record is a body and a
\* line feed, the last one possibly without it).
Bodies ==
    { <<ChA, TAB, ChB>>, <<ChA, TAB, ChA>>, <<ChB, SP, ChA>> }

\* The streams of at most n records; the last record may lack its line feed.
Streams(n) ==
    LET terminated == {Flatten([i \in 1..Len(bs) |-> Append(bs[i], LF)]) :
                         bs \in SeqsUpTo(Bodies, n)}
    IN terminated \cup
       {SubSeq(d, 1, Len(d) - 1) : d \in terminated \ {<<>>}}

\* What a file or standard input holds in a run of tsvfirst.rs.
FileData ==
    { <<>>, <<ChA, TAB, ChB, LF>>, <<ChA, TAB, ChA, LF>>, <<ChA, TAB, ChA>> }

\* The file system: each file name is absent or holds some data.
FileSystems ==
    [FileNames -> {[exists |-> FALSE, data |-> <<>>]}
                  \cup {[exists |-> TRUE, data |-> d] : d \in FileData}]

\* Field specifications a caller hands to Config::fields or writes into a
\* RunConfig literal (0-indexed, taken as they are).
TestFields == {<<0>>, <<1>>, <<0, 1>>}
FieldArgs == TestFields \cup {<<1, 0>>}

\* Values of the command line's -f option.
CliFields == { <<"1">>, <<"2">>, <<"1", ",", "2">>, <<"2", ",", "1">>, <<"0">>, <<>> }

\* ------------------------------------------------------------------ state

VARIABLES
    api,       \* "none", or the entry point: "main" (main.rs), "lib" (tsvfirst.rs)
    cfg,       \* the RunConfig or Config: fields, sorted, whitespace, inputs
    pristine,  \* cfg is as its constructor (default / new) built it
    pc,        \* where the program is
    env,       \* the file system and standard input the inputs were opened on
    sources,   \* the data of the opened inputs, in chain order
    srcIdx,    \* the reader's current source
    pos,       \* the reader's next byte in it
    line,      \* run's `line` buffer
    seen,      \* run's `seen` set
    last,      \* run's `last`: <<>> is None, <<k>> is Some(k)
    out,       \* the bytes the output sink has taken
    result,    \* what run (or main) returned: "" while it runs
    recs,      \* history: the lines read_until has returned
    kept,      \* history: should_print of each line decided
    readErr,   \* history: a read has failed in this run
    writeErr,  \* history: a write to the sink has failed in this run
    flushes,   \* history: the calls of output.flush() in this run
    again,     \* "no", or how this second run was set up
    prevOut,   \* the first run's output (second run only)
    prevReadErr, \* the first run's readErr (second run only)
    arg,       \* the argument of parse_field_spec
    parsed,    \* its result, <<>> before the call
    built      \* key extraction on its own: <<>>, or the fields and the key

vars == <<api, cfg, pristine, pc, env, sources, srcIdx, pos, line, seen, last,
          out, result, recs, kept, readErr, writeErr, again, prevOut,
          prevReadErr, arg, parsed, flushes, built>>

config == <<api, cfg, pristine>>
reader == <<env, sources, srcIdx, pos>>
memory == <<seen, last>>
history == <<recs, kept, readErr, writeErr, flushes>>
passes == <<again, prevOut, prevReadErr>>
parser == <<arg, parsed>>

NoEnv == [fs |-> [n \in FileNames |-> [exists |-> FALSE, data |-> <<>>]],
          stdin |-> <<>>]

Init ==
    /\ api = "none"
    /\ cfg = [fields |-> <<>>, sorted |-> FALSE, whitespace |-> FALSE,
              inputs |-> <<>>]
    /\ pristine = FALSE
    /\ pc = "start"
    /\ env = NoEnv
    /\ sources = <<>>
    /\ srcIdx = 1
    /\ pos = 1
    /\ line = <<>>
    /\ seen = {}
    /\ last = <<>>
    /\ out = <<>>
    /\ result = ""
    /\ recs = <<>>
    /\ kept = <<>>
    /\ readErr = FALSE
    /\ writeErr = FALSE
    /\ flushes = 0
    /\ again = "no"
    /\ prevOut = <<>>
    /\ prevReadErr = FALSE
    /\ arg = <<>>
    /\ parsed = <<>>
    /\ built = <<>>

\* -------------------------------------------------- main.rs: configuration

\* RunConfig::default().
RunConfigDefault ==
    /\ pc = "start"
    /\ api' = "main"
    /\ cfg' = [fields |-> <<0>>, sorted |-> FALSE, whitespace |-> FALSE,
               inputs |-> <<>>]
    /\ pristine' = TRUE
    /\ pc' = "config"
    /\ UNCHANGED <<reader, line, memory, out, result, history, passes, parser, built>>

\* A RunConfig literal over the default, as the tests write it:
\* RunConfig { whitespace: .., fields: .., ..RunConfig::default() }.
RunConfigLiteral ==
    /\ pc = "config"
    /\ api = "main"
    /\ pristine
    /\ \E f \in TestFields, s \in BOOLEAN, w \in BOOLEAN :
          cfg' = [cfg EXCEPT !.fields = f, !.sorted = s, !.whitespace = w]
    /\ pristine' = FALSE
    /\ UNCHANGED <<api, pc, reader, line, memory, out, result, history,
                   passes, parser, built>>

\* get_config(): the command line.  A field specification that does not
\* parse ends the process (exit(1)); FILENAME gives RunInput::File.
GetConfig ==
    /\ pc = "start"
    /\ \E a \in CliFields, s \in BOOLEAN, w \in BOOLEAN,
          input \in {<<>>, <<"f">>} :
          LET r == parse_field_spec(a) IN
          IF r.ok
          THEN /\ api' = "main"
               /\ cfg' = [fields |-> r.fields, sorted |-> s, whitespace |-> w,
                          inputs |-> input]
               /\ pc' = "config"
               /\ UNCHANGED result
          ELSE /\ pc' = "exit"
               /\ result' = "exit(1)"
               /\ UNCHANGED <<api, cfg>>
    /\ pristine' = FALSE
    /\ UNCHANGED <<reader, line, memory, out, history, passes, parser, built>>

\* main() and the head of run: the input is opened (a file may fail to
\* open, which main returns), the memory is created empty and the loop
\* entered.
MainRun ==
    /\ pc = "config"
    /\ api = "main"
    /\ \E d \in Streams(MaxRecs), opens \in BOOLEAN :
          IF cfg.inputs # <<>> /\ ~opens
          THEN /\ pc' = "done"
               /\ result' = "Err:open"
               /\ UNCHANGED <<reader>>
          ELSE /\ pc' = "read"
               /\ sources' = <<d>>
               /\ env' = IF cfg.inputs = <<>>
                         THEN [NoEnv EXCEPT !.stdin = d]
                         ELSE [NoEnv EXCEPT !.fs["f"] = [exists |-> TRUE, data |-> d]]
               /\ srcIdx' = 1
               /\ pos' = 1
               /\ UNCHANGED result
    /\ seen' = {}
    /\ last' = <<>>
    /\ line' = <<>>
    /\ UNCHANGED <<config, out, history, passes, parser, built>>

\* ------------------------------------------- config.rs: the Config builder

\* Config::new().
ConfigNew ==
    /\ pc = "start"
    /\ api' = "lib"
    /\ cfg' = [fields |-> <<1>>, sorted |-> FALSE, whitespace |-> FALSE,
               inputs |-> <<>>]
    /\ pristine' = TRUE
    /\ pc' = "config"
    /\ UNCHANGED <<reader, line, memory, out, result, history, passes, parser, built>>

\* Config::add_input(input).
ConfigAddInput ==
    /\ pc = "config"
    /\ api = "lib"
    /\ Len(cfg.inputs) < MaxInputs
    /\ \E n \in InputNames : cfg' = [cfg EXCEPT !.inputs = Append(@, n)]
    /\ pristine' = FALSE
    /\ UNCHANGED <<api, pc, reader, line, memory, out, result, history,
                   passes, parser, built>>

\* Config::fields(fields).
ConfigFields ==
    /\ pc = "config"
    /\ api = "lib"
    /\ \E f \in FieldArgs : cfg' = [cfg EXCEPT !.fields = f]
    /\ pristine' = FALSE
    /\ UNCHANGED <<api, pc, reader, line, memory, out, result, history,
                   passes, parser, built>>

\* Config::sorted(yes).
ConfigSorted ==
    /\ pc = "config"
    /\ api = "lib"
    /\ \E yes \in BOOLEAN : cfg' = [cfg EXCEPT !.sorted = yes]
    /\ pristine' = FALSE
    /\ UNCHANGED <<api, pc, reader, line, memory, out, result, history,
                   passes, parser, built>>

\* Config::whitespace(yes).
ConfigWhitespace ==
    /\ pc = "config"
    /\ api = "lib"
    /\ \E yes \in BOOLEAN : cfg' = [cfg EXCEPT !.whitespace = yes]
    /\ pristine' = FALSE
    /\ UNCHANGED <<api, pc, reader, line, memory, out, result, history,
                   passes, parser, built>>

\* Of a file system and a standard input, what the inputs name.
Named(inputs, fs, stdin) ==
    [fs |-> [n \in FileNames |->
               IF n \in Range(inputs) THEN fs[n] ELSE NoEnv.fs[n]],
     stdin |-> IF inputs = <<>> \/ "-" \in Range(inputs) THEN stdin ELSE <<>>]

\* The head of tsvfirst.rs's run: the memory is created empty and
\* config.get_reader()? opens the inputs; its error is run's result.
GetReader ==
    /\ pc = "config"
    /\ api = "lib"
    /\ \E fs \in FileSystems, stdin \in FileData :
          LET r == get_reader(cfg.inputs, fs, stdin) IN
          /\ env' = Named(cfg.inputs, fs, stdin)
          /\ IF r.err # ""
             THEN /\ pc' = "done"
                  /\ result' = "Err:" \o r.err
                  /\ UNCHANGED <<sources, srcIdx, pos>>
             ELSE /\ pc' = "read"
                  /\ sources' = r.sources
                  /\ srcIdx' = 1
                  /\ pos' = 1
                  /\ UNCHANGED result
    /\ seen' = {}
    /\ last' = <<>>
    /\ line' = <<>>
    /\ UNCHANGED <<config, out, history, passes, parser, built>>

\* ------------------------------------------------------ the loop of run

\* reader.read_until(..) returns Ok: a line, or nothing at the end of the
\* stream, where the loop breaks.
ReadLine ==
    /\ pc = "read"
    /\ LET r == read_until(sources, srcIdx, pos) IN
       /\ line' = r.line
       /\ srcIdx' = r.idx
       /\ pos' = r.pos
       /\ IF r.line = <<>>
          THEN pc' = "flush" /\ UNCHANGED recs
          ELSE pc' = "key" /\ recs' = Append(recs, r.line)
    /\ UNCHANGED <<config, env, sources, memory, out, result, kept, readErr,
                   writeErr, flushes, passes, parser, built>>

\* reader.read_until(..) returns Err: `while let Ok(_)` does not match, the
\* loop ends and run goes on to the flush.
ReadFails ==
    /\ pc = "read"
    /\ pc' = "flush"
    /\ readErr' = TRUE
    /\ UNCHANGED <<config, reader, line, memory, out, result, recs, kept,
                   writeErr, flushes, passes, parser, built>>

\* The key is built and should_print decided; a record not printed is
\* done with (line.clear()).  When the key's index subtraction overflows
\* this is the build without overflow checks.
Decide ==
    /\ pc = "key"
    /\ LET k == BuildKey(line, cfg.fields, cfg.whitespace)
           d == Decision(cfg.sorted, seen, last, k.key)
       IN /\ seen' = d.seen
          /\ last' = d.last
          /\ kept' = Append(kept, d.print)
          /\ IF d.print
             THEN pc' = "write" /\ UNCHANGED line
             ELSE pc' = "read" /\ line' = <<>>
    /\ UNCHANGED <<config, reader, out, result, recs, readErr, writeErr,
                   flushes, passes, parser, built>>

\* The key's index subtraction overflows in a build with overflow checks:
\* the thread panics.
DecidePanics ==
    /\ pc = "key"
    /\ BuildKey(line, cfg.fields, cfg.whitespace).overflow
    /\ pc' = "done"
    /\ result' = "panic"
    /\ UNCHANGED <<config, reader, line, memory, out, history, passes, parser, built>>

\* WriteLine as writeln would do it: the record and a line feed, also for
\* a last record that had none.
WriteLineTerminated ==
    /\ pc = "write"
    /\ out' = out \o (IF line[Len(line)] = LF THEN line ELSE Append(line, LF))
    /\ line' = <<>>
    /\ pc' = "read"
    /\ UNCHANGED <<config, reader, memory, result, history, passes, parser, built>>

\* output.write_all(&line) returns Ok.
WriteLine ==
    /\ pc = "write"
    /\ out' = out \o line
    /\ line' = <<>>
    /\ pc' = "read"
    /\ UNCHANGED <<config, reader, memory, result, history, passes, parser, built>>

\* WriteFails with the error of write_all dropped (no `?`): the loop goes on
\* with the next record.
WriteFailsIgnored ==
    /\ pc = "write"
    /\ \E n \in 0..(Len(line) - 1) : out' = out \o SubSeq(line, 1, n)
    /\ writeErr' = TRUE
    /\ line' = <<>>
    /\ pc' = "read"
    /\ UNCHANGED <<config, reader, memory, result, recs, kept, readErr, flushes,
                   passes, parser, built>>

\* output.write_all(&line) returns Err after the sink took some of the
\* line's bytes, not all of them: `?` returns the error from run.
WriteFails ==
    /\ pc = "write"
    /\ \E n \in 0..(Len(line) - 1) : out' = out \o SubSeq(line, 1, n)
    /\ writeErr' = TRUE
    /\ result' = "Err:write"
    /\ pc' = "done"
    /\ UNCHANGED <<config, reader, line, memory, recs, kept, readErr, flushes,
                   passes, parser, built>>

\* output.flush() returns Ok, and run returns Ok(()).
Flush ==
    /\ pc = "flush"
    /\ result' = "Ok"
    /\ flushes' = flushes + 1
    /\ pc' = "done"
    /\ UNCHANGED <<config, reader, line, memory, out, recs, kept, readErr,
                   writeErr, passes, parser, built>>

\* output.flush() returns Err, which run returns.
FlushFails ==
    /\ pc = "flush"
    /\ result' = "Err:flush"
    /\ flushes' = flushes + 1
    /\ pc' = "done"
    /\ UNCHANGED <<config, reader, line, memory, out, recs, kept, readErr,
                   writeErr, passes, parser, built>>

\* run is called a second time (main.rs): on the first run's output with
\* the same configuration, or on the same input in the other mode after a
\* run in sorted mode.
RunAgain ==
    /\ pc = "done"
    /\ api = "main"
    /\ result = "Ok"
    /\ again = "no"
    /\ \/ /\ again' = "on output"
          /\ sources' = <<out>>
          /\ UNCHANGED cfg
       \/ /\ cfg.sorted
          /\ again' = "other mode"
          /\ cfg' = [cfg EXCEPT !.sorted = FALSE]
          /\ UNCHANGED sources
    /\ prevOut' = out
    /\ prevReadErr' = readErr
    /\ srcIdx' = 1
    /\ pos' = 1
    /\ seen' = {}
    /\ last' = <<>>
    /\ line' = <<>>
    /\ out' = <<>>
    /\ result' = ""
    /\ recs' = <<>>
    /\ kept' = <<>>
    /\ readErr' = FALSE
    /\ writeErr' = FALSE
    /\ flushes' = 0
    /\ pc' = "read"
    /\ UNCHANGED <<api, pristine, env, parser, built>>

Next ==
    \/ RunConfigDefault
    \/ RunConfigLiteral
    \/ GetConfig
    \/ MainRun
    \/ ConfigNew
    \/ ConfigAddInput
    \/ ConfigFields
    \/ ConfigSorted
    \/ ConfigWhitespace
    \/ GetReader
    \/ ReadLine
    \/ ReadFails
    \/ Decide
    \/ DecidePanics
    \/ WriteLine
    \/ WriteFails
    \/ Flush
    \/ FlushFails
    \/ RunAgain

Spec == Init /\ [][Next]_vars

\* ------------------------------------------- parse_field_spec on its own

\* The characters of an argument.
ArgChars == {"0", "1", "2", "3", ",", "+", "x"}

InitParse ==
    /\ api = "none"
    /\ cfg = [fields |-> <<>>, sorted |-> FALSE, whitespace |-> FALSE,
              inputs |-> <<>>]
    /\ pristine = FALSE
    /\ pc = "parse"
    /\ env = NoEnv
    /\ sources = <<>>
    /\ srcIdx = 1
    /\ pos = 1
    /\ line = <<>>
    /\ seen = {}
    /\ last = <<>>
    /\ out = <<>>
    /\ result = ""
    /\ recs = <<>>
    /\ kept = <<>>
    /\ readErr = FALSE
    /\ writeErr = FALSE
    /\ flushes = 0
    /\ again = "no"
    /\ prevOut = <<>>
    /\ prevReadErr = FALSE
    /\ arg \in SeqsUpTo(ArgChars, MaxArgLen)
    /\ parsed = <<>>
    /\ built = <<>>

\* parse_field_spec(arg) is called and returns.
ParseFieldSpec ==
    /\ pc = "parse"
    /\ parsed' = <<parse_field_spec(arg)>>
    /\ pc' = "parsed"
    /\ UNCHANGED <<config, reader, line, memory, out, result, history,
                   passes, arg, built>>

NextParse == ParseFieldSpec

SpecParse == InitParse /\ [][NextParse]_vars

\* ================================================================ claims

\* The records of a byte stream: each ends with its line feed, and what
\* follows the last line feed, when there is something, is the last record.
RECURSIVE RecordsFrom(_, _, _, _)
RecordsFrom(stream, i, cur, acc) ==
    IF i > Len(stream) THEN (IF cur = <<>> THEN acc ELSE Append(acc, cur))
    ELSE IF stream[i] = LF
         THEN RecordsFrom(stream, i + 1, <<>>, Append(acc, Append(cur, LF)))
         ELSE RecordsFrom(stream, i + 1, Append(cur, stream[i]), acc)

Records(stream) == RecordsFrom(stream, 1, <<>>, <<>>)

\* The key of record i of rs under the configuration.
KeyAt(rs, i) == KeyOf(rs[i], cfg.fields, cfg.whitespace)

\* No strictly earlier record of rs has the key of record i.
FirstOccurrence(rs, i) == \A j \in 1..(i - 1) : KeyAt(rs, j) # KeyAt(rs, i)

RECURSIVE FirstOccurrencesFrom(_, _)
\* The records from i on that are first occurrences, in order.
FirstOccurrencesFrom(rs, i) ==
    IF i > Len(rs) THEN <<>>
    ELSE (IF FirstOccurrence(rs, i) THEN <<rs[i]>> ELSE <<>>)
         \o FirstOccurrencesFrom(rs, i + 1)

FirstOccurrences(rs) == FirstOccurrencesFrom(rs, 1)

\* The whole input of the run, as one stream.
Input == Flatten(sources)

\* run has returned Ok after reading its whole input.
Completed == pc = "done" /\ result = "Ok" /\ ~readErr

\* C1: in unsorted mode every record decided is printed exactly when no
\* strictly earlier record read has its key, and the output of a run over
\* the whole input is the sequence, in input order, of the input's records
\* whose key no strictly earlier record has.
C1_UnsortedFirstOccurrences ==
    (api # "none" /\ ~cfg.sorted) =>
        /\ \A i \in 1..Len(kept) : kept[i] = FirstOccurrence(recs, i)
        /\ Completed => /\ recs = Records(Input)
                        /\ out = Flatten(FirstOccurrences(Records(Input)))

\* A run in unsorted mode over three records or more has dropped a record
\* whose key appeared earlier but not in the record just before it.
C1_Witness ==
    /\ Completed
    /\ ~cfg.sorted
    /\ \E i \in 3..Len(recs) :
          /\ ~kept[i]
          /\ KeyAt(recs, i) # KeyAt(recs, i - 1)

\* Records with equal keys are contiguous in rs.
Contiguous(rs) ==
    \A i, j \in 1..Len(rs) :
        (i < j /\ KeyAt(rs, i) = KeyAt(rs, j)) =>
            \A k \in i..j : KeyAt(rs, k) = KeyAt(rs, i)

\* C2: when the records with equal keys are contiguous in the input, run in
\* sorted mode and run in unsorted mode, on the same input with the same
\* fields and delimiter mode, write the same output (here the run in
\* unsorted mode follows the one in sorted mode, whose output is prevOut).
C2_SortedAgreesWithUnsorted ==
    (again = "other mode" /\ Completed /\ ~prevReadErr
       /\ Contiguous(Records(Input)))
        => out = prevOut

\* Both runs are over an input with contiguous keys whose first record has
\* the empty key and in which a record was dropped.
C2_Witness ==
    /\ again = "other mode"
    /\ Completed
    /\ ~prevReadErr
    /\ Contiguous(Records(Input))
    /\ Len(recs) >= 3
    /\ KeyAt(recs, 1) = <<>>
    /\ \E i \in 1..Len(kept) : ~kept[i]
    /\ \E i \in 1..Len(kept) : i > 1 /\ kept[i]

\* C3: run over the output of a run, with the same configuration, writes
\* that output again, byte for byte, in sorted and in unsorted mode.
C3_Idempotent ==
    (again = "on output" /\ Completed) => out = prevOut

\* The first run, in sorted mode, dropped records of its input and kept
\* several, and the second run over its output is complete.
C3_Witness ==
    /\ again = "on output"
    /\ Completed
    /\ cfg.sorted
    /\ cfg.inputs = <<>>
    /\ Len(recs) >= 2
    /\ Len(prevOut) < Len(env.stdin)
    /\ ~prevReadErr

RECURSIVE KeptLines(_, _, _)
\* The records decided as kept, in order: record i of rs when ks[i].
KeptLines(rs, ks, i) ==
    IF i > Len(ks) THEN <<>>
    ELSE (IF ks[i] THEN <<rs[i]>> ELSE <<>>) \o KeptLines(rs, ks, i + 1)

Front(s) == SubSeq(s, 1, Len(s) - 1)

\* C4: in both modes and at every point of a run the sink holds exactly
\* the bytes of the records decided as kept, whole and in input order, and
\* nothing of a dropped record: all of them once the write of the last one
\* has returned, all but the last one while that write is to come, and all
\* but the last one followed by a proper part of it when that write failed.
C4_OutputIsKeptRecordsVerbatim ==
    LET full == KeptLines(recs, kept, 1) IN
    IF pc = "write" THEN out = Flatten(Front(full))
    ELSE IF writeErr
         THEN \E n \in 0..(Len(full[Len(full)]) - 1) :
                 out = Flatten(Front(full)) \o SubSeq(full[Len(full)], 1, n)
         ELSE out = Flatten(full)

\* A complete run that dropped a record and kept, and wrote, a last record
\* that has no line feed.
C4_Witness ==
    /\ Completed
    /\ Len(kept) >= 3
    /\ \E i \in 1..Len(kept) : ~kept[i]
    /\ kept[Len(kept)]
    /\ recs[Len(recs)][Len(recs[Len(recs)])] # LF
    /\ out # Input

\* The inputs get_reader walks, and the data each names.
InputsWalked == IF cfg.inputs = <<>> THEN <<"-">> ELSE cfg.inputs
DataOf(n) == IF n = "-" THEN env.stdin ELSE env.fs[n].data

\* The bytes the reader has handed out so far: the sources before the
\* current one and the current one up to pos.
Consumed ==
    Flatten([i \in 1..Len(sources) |->
               IF i < srcIdx THEN sources[i]
               ELSE IF i = srcIdx THEN SubSeq(sources[i], 1, pos - 1)
               ELSE <<>>])

\* C5: the engine over several inputs behaves as over the one stream of
\* their bytes in argument order: the sources are the inputs' data in
\* argument order, the lines read are the first records of that stream
\* (all of them in a complete run) and are exactly the bytes consumed, a
\* source being entered only when the ones before are exhausted, and in
\* unsorted mode a record is printed exactly when no earlier record, of
\* whichever source, has its key.
C5_InputsAreOneStream ==
    (api = "lib" /\ pc \notin {"start", "config"}
       /\ result \notin {"Err:open", "Err:stdin used twice"}) =>
        /\ sources = [i \in 1..Len(InputsWalked) |-> DataOf(InputsWalked[i])]
        /\ Flatten(recs) = Consumed
        /\ recs = SubSeq(Records(Input), 1, Len(recs))
        /\ Completed => recs = Records(Input)
        /\ ~cfg.sorted =>
              \A i \in 1..Len(kept) : kept[i] = FirstOccurrence(recs, i)

\* A complete run over three sources in which a record spans the second
\* and the third and a record is dropped for a key of the first source.
C5_Witness ==
    /\ api = "lib"
    /\ Completed
    /\ ~cfg.sorted
    /\ Len(sources) = 3
    /\ sources[1] # <<>>
    /\ sources[2] # <<>>
    /\ sources[2][Len(sources[2])] # LF
    /\ sources[3] # <<>>
    /\ Len(recs) = 2
    /\ ~kept[2]

\* A token that writes a positive integer: an optional '+', then decimal
\* digits, one of them not 0.
Unsigned(tok) == IF tok # <<>> /\ tok[1] = "+" THEN Tail(tok) ELSE tok
PositiveToken(tok) ==
    /\ Unsigned(tok) # <<>>
    /\ \A i \in 1..Len(Unsigned(tok)) : Unsigned(tok)[i] \in Digits
    /\ \E i \in 1..Len(Unsigned(tok)) : Unsigned(tok)[i] # "0"

RECURSIVE Pow10(_)
Pow10(n) == IF n = 0 THEN 1 ELSE 10 * Pow10(n - 1)

RECURSIVE Number(_)
\* The number a sequence of digits writes.
Number(ds) ==
    IF ds = <<>> THEN 0
    ELSE DigitVal(Head(ds)) * Pow10(Len(ds) - 1) + Number(Tail(ds))

StrictlyAscending(s) == \A i \in 1..(Len(s) - 1) : s[i] < s[i + 1]

\* C6: for an argument whose comma-separated tokens all write positive
\* integers, parse_field_spec returns the strictly ascending sequence of
\* the distinct values minus one ("1" gives 0; "2,3" gives 1,2; "3,2,2"
\* gives 1,2); for every other argument (a token 0, a token that writes no
\* positive integer, the empty string) it returns an error and no fields.
C6_ParseFieldSpec ==
    pc = "parsed" =>
        LET r == parsed[1]
            toks == SplitComma(arg)
        IN /\ IF \A i \in 1..Len(toks) : PositiveToken(toks[i])
              THEN /\ r.ok
                   /\ StrictlyAscending(r.fields)
                   /\ Range(r.fields) =
                        {Number(Unsigned(toks[i])) - 1 : i \in 1..Len(toks)}
              ELSE ~r.ok /\ r.fields = <<>>
           /\ arg = <<"1">> => r.fields = <<0>>
           /\ arg = <<"2", ",", "3">> => r.fields = <<1, 2>>
           /\ arg = <<"3", ",", "2", ",", "2">> => r.fields = <<1, 2>>
           /\ arg \in {<<"0">>, <<>>} => ~r.ok

\* "3,2,2" has been parsed into 1,2.
C6_Witness ==
    /\ pc = "parsed"
    /\ arg = <<"3", ",", "2", ",", "2">>
    /\ parsed[1].ok
    /\ parsed[1].fields = <<1, 2>>

\* C7: a run in which a read from the input failed does not return
\* success.
C7_ReadErrorIsReturned ==
    (readErr /\ pc = "done") => result # "Ok"

\* C8: a write of a kept record that fails ends the run there with that
\* error: the step of the failure leaves run returned with the write error,
\* reads and decides no record and retracts nothing of what the sink held,
\* and no step follows it.
C8_WriteErrorStopsRun ==
    [][/\ ~writeErr
       /\ writeErr' =>
             /\ pc' = "done"
             /\ result' = "Err:write"
             /\ IsPrefix(out, out')
             /\ UNCHANGED <<recs, kept, sources, srcIdx, pos, seen, last>>]_vars

\* A write failed in the middle of a record, after an earlier record was
\* written, while input was still unread.
C8_Witness ==
    /\ writeErr
    /\ pc = "done"
    /\ Len(recs) >= 2
    /\ Len(out) > Len(recs[1])
    /\ srcIdx <= Len(sources)
    /\ pos <= Len(sources[srcIdx])

\* "-" occurs more than once among the inputs.
StdinTwice == Cardinality({i \in 1..Len(cfg.inputs) : cfg.inputs[i] = "-"}) > 1

\* The position of the second "-" among the inputs.
SecondStdin ==
    CHOOSE j \in 1..Len(cfg.inputs) :
        /\ cfg.inputs[j] = "-"
        /\ Cardinality({i \in 1..(j - 1) : cfg.inputs[i] = "-"}) = 1

\* No record has been read, decided or written.
NothingProcessed == recs = <<>> /\ kept = <<>> /\ out = <<>> /\ Consumed = <<>>

\* C9 as stated: with "-" more than once among the inputs, get_reader
\* returns the error "stdin used twice" and the run fails before any record
\* is read, decided or written.
C9_StdinTwiceIsThatError ==
    (api = "lib" /\ pc \notin {"start", "config"} /\ StdinTwice) =>
        /\ pc = "done"
        /\ result = "Err:stdin used twice"
        /\ NothingProcessed

\* C9, amended: with "-" more than once among the inputs, get_reader
\* returns an error and the run fails before any record is read, decided
\* or written; the error is "stdin used twice" when every file named before
\* the second "-" opens, and otherwise the error of opening the first of
\* them that does not.
C9_StdinTwiceFails ==
    (api = "lib" /\ pc \notin {"start", "config"} /\ StdinTwice) =>
        /\ pc = "done"
        /\ NothingProcessed
        /\ IF \A i \in 1..(SecondStdin - 1) :
                 cfg.inputs[i] # "-" => env.fs[cfg.inputs[i]].exists
           THEN result = "Err:stdin used twice"
           ELSE result = "Err:open"

\* get_reader has returned "stdin used twice" for inputs that name a file
\* and twice "-".
C9_Witness ==
    /\ api = "lib"
    /\ pc = "done"
    /\ StdinTwice
    /\ "f" \in Range(cfg.inputs)
    /\ result = "Err:stdin used twice"

\* C10: a configuration as RunConfig::default or Config::new builds it has
\* the field specification 0 (the first column), sorted = false and
\* whitespace = false.
C10_DefaultsKeyOnFirstColumn ==
    pristine =>
        /\ cfg.fields = <<0>>
        /\ cfg.sorted = FALSE
        /\ cfg.whitespace = FALSE

\* The errors parse_field_spec returns for a token: the one of
\* parse::<usize> and the one of the zero check.
InvalidToken == {"ParseIntError", "output field is 1-indexed; 0 is not valid"}

\* C11: parsing the empty string fails with the error "no fields specified"
\* and not with an error for a token; an error for a token is returned only
\* when some comma-separated token writes no positive integer (zero
\* included).
C11_EmptyStringIsEmptySpecification ==
    pc = "parsed" =>
        LET r == parsed[1]
            toks == SplitComma(arg)
        IN /\ arg = <<>> => (~r.ok /\ r.err = "no fields specified")
           /\ r.err \in InvalidToken =>
                 /\ arg # <<>>
                 /\ \E i \in 1..Len(toks) : ~PositiveToken(toks[i])

\* The loop of run ended on a read that returned no bytes.
EndOfStreamSeen ==
    /\ ~readErr
    /\ \/ pc = "flush"
       \/ pc = "done" /\ result \in {"Ok", "Err:flush"}

\* C12: the sink is flushed at most once in a run; a run that has seen the
\* end of the stream and returned has flushed it once; and when the sink
\* has been flushed the stream was read to its end, every kept record had
\* been written, and run has returned, so that no write follows the flush.
C12_FlushOnceAtEndOfStream ==
    /\ flushes <= 1
    /\ (pc = "done" /\ EndOfStreamSeen) => flushes = 1
    /\ flushes = 1 =>
          /\ pc = "done"
          /\ out = Flatten(KeptLines(recs, kept, 1))
          /\ ~readErr
          /\ Consumed = Input

\* ----------------------------------------------- key extraction on its own

MaxLineLen == 4
MaxField == 2

\* The bytes of a line before its line feed: the two delimiters and two
\* letters.
KeyBytes == {TAB, SP, ChA, ChB}

\* What read_until leaves in `line` when the loop goes on: one byte or more,
\* a line feed last or, in the last line of a stream, none at all.
Lines ==
    {Append(b, LF) : b \in SeqsUpTo(KeyBytes, MaxLineLen)}
      \cup (SeqsUpTo(KeyBytes, MaxLineLen) \ {<<>>})

\* The field specifications parse_field_spec returns, over the fields
\* 0..MaxField.
AscendingSpecs ==
    {s \in SeqsUpTo(0..MaxField, MaxField + 1) :
        s # <<>> /\ \A i \in 1..(Len(s) - 1) : s[i] < s[i + 1]}

InitKey ==
    /\ api = "none"
    /\ \E s \in AscendingSpecs, w \in BOOLEAN :
          cfg = [fields |-> s, sorted |-> FALSE, whitespace |-> w,
                 inputs |-> <<>>]
    /\ pristine = FALSE
    /\ pc = "split"
    /\ env = NoEnv
    /\ sources = <<>>
    /\ srcIdx = 1
    /\ pos = 1
    /\ line \in Lines
    /\ seen = {}
    /\ last = <<>>
    /\ out = <<>>
    /\ result = ""
    /\ recs = <<>>
    /\ kept = <<>>
    /\ readErr = FALSE
    /\ writeErr = FALSE
    /\ flushes = 0
    /\ again = "no"
    /\ prevOut = <<>>
    /\ prevReadErr = FALSE
    /\ arg = <<>>
    /\ parsed = <<>>
    /\ built = <<>>

\* "Build sort key" for the line: the fields the splitter yields and the
\* key the loop over config.fields builds from them.
ExtractKey ==
    /\ pc = "split"
    /\ built' = <<[fields |-> Split(line, cfg.whitespace),
                   key |-> BuildKey(line, cfg.fields, cfg.whitespace).key,
                   overflow |->
                       BuildKey(line, cfg.fields, cfg.whitespace).overflow]>>
    /\ pc' = "keyed"
    /\ UNCHANGED <<config, reader, line, memory, out, result, history,
                   passes, parser>>

NextKey == ExtractKey

SpecKey == InitKey /\ [][NextKey]_vars

\* C13: for a strictly ascending field specification and a line of n
\* fields, the key is the fields at the specified indices below n, in the
\* specification's order and with nothing between them; the indices below
\* n are the first ones of the specification, so extraction stops at the
\* first index that is n or more and the key is empty when the first one
\* is; and a line with too few fields raises nothing.
C13_KeyIsFieldsInOrder ==
    (pc = "keyed" /\ StrictlyAscending(cfg.fields)) =>
        LET b == built[1]
            n == Len(b.fields)
            spec == cfg.fields
            m == Cardinality({k \in 1..Len(spec) : spec[k] < n})
        IN /\ ~b.overflow
           /\ \A k \in 1..Len(spec) : spec[k] < n <=> k <= m
           /\ b.key = Flatten([k \in 1..m |-> b.fields[spec[k] + 1]])
           /\ spec[1] >= n => b.key = <<>>

\* The key of a line of two fields under the specification 0,1,2: both
\* fields, and nothing for the field that is not there.
C13_Witness ==
    /\ pc = "keyed"
    /\ cfg.fields = <<0, 1, 2>>
    /\ built[1].fields = <<<<ChA>>, <<ChB>>>>
    /\ built[1].key = <<ChA, ChB>>

\* C14: a last line without a line feed gets, in both delimiter modes, the
\* key the same line followed by a line feed gets, and so the same
\* decision: after the terminated line, it is dropped in either mode.
C14_UnterminatedAsTerminated ==
    (pc = "keyed" /\ line[Len(line)] # LF) =>
        LET terminated == KeyOf(Append(line, LF), cfg.fields, cfg.whitespace)
        IN /\ built[1].key = terminated
           /\ \A sorted \in BOOLEAN :
                 ~Decision(sorted, {terminated}, <<terminated>>,
                           built[1].key).print

RECURSIVE TokensFrom(_, _, _, _)
TokensFrom(l, i, cur, acc) ==
    IF i > Len(l) THEN (IF cur = <<>> THEN acc ELSE Append(acc, cur))
    ELSE IF l[i] \in Whitespace
         THEN TokensFrom(l, i + 1, <<>>,
                         IF cur = <<>> THEN acc ELSE Append(acc, cur))
         ELSE TokensFrom(l, i + 1, Append(cur, l[i]), acc)

\* The maximal runs of bytes of a line that are not whitespace, in order.
Tokens(l) == TokensFrom(l, 1, <<>>, <<>>)

\* C15: in whitespace mode the fields of a line are its maximal runs of
\* bytes that are not whitespace: no field is empty, whether between two
\* separators or before a leading or after a trailing run of whitespace,
\* and field 0 of a line that starts with whitespace is its first such run.
C15_WhitespaceRunsCollapse ==
    (pc = "keyed" /\ cfg.whitespace) => built[1].fields = Tokens(line)

\* C16: the field specification of every run that reaches key extraction,
\* however the configuration was built (parse_field_spec,
\* RunConfig::default, Config::new, Config::fields), is not empty and
\* strictly ascending, hence without duplicates, and idx - last_idx does
\* not underflow on the record at hand.
C16_FieldSpecIsAscending ==
    pc = "key" =>
        /\ cfg.fields # <<>>
        /\ StrictlyAscending(cfg.fields)
        /\ ~BuildKey(line, cfg.fields, cfg.whitespace).overflow

\* The occurrence memory of sorted mode: nothing in `seen`, and in `last`
\* nothing before the first record is decided and then the key of the
\* record decided last.
SortedMemory ==
    cfg.sorted =>
        /\ seen = {}
        /\ last = IF kept = <<>> THEN <<>>
                  ELSE <<KeyAt(recs, Len(kept))>>

\* C17: in sorted mode the memory is empty before the first record, after
\* each record decided, kept or dropped, it holds the one value that is
\* that record's key, a drop leaves the value as it was, and the set of
\* all keys seen stays empty.
C17_SortedMemoryIsLastKey ==
    [][/\ SortedMemory'
       /\ (cfg.sorted /\ pc = "key" /\ pc' = "read") => last' = last]_vars

\* A sorted run has dropped a record after keeping two with different
\* keys, and remembers the dropped record's key.
C17_Witness ==
    /\ cfg.sorted
    /\ pc = "read"
    /\ kept = <<TRUE, TRUE, FALSE>>
    /\ KeyAt(recs, 1) # KeyAt(recs, 2)
    /\ last = <<KeyAt(recs, 3)>>
    /\ seen = {}

\* The occurrence memory of unsorted mode: `seen` is the set of the keys of
\* the records decided, a record is kept exactly when its key was not in
\* the set before, so the set has as many elements as records were kept;
\* the sink holds them all, and as many records as the set has elements,
\* except that the last one is missing or partial while its write is to
\* come or after it failed.
UnsortedMemory ==
    ~cfg.sorted =>
        LET full == KeptLines(recs, kept, 1) IN
        /\ seen = {KeyAt(recs, i) : i \in 1..Len(kept)}
        /\ \A i \in 1..Len(kept) :
              kept[i] <=> KeyAt(recs, i) \notin
                             {KeyAt(recs, j) : j \in 1..(i - 1)}
        /\ Len(full) = Cardinality(seen)
        /\ IF pc = "write" \/ writeErr
           THEN /\ IsPrefix(Flatten(Front(full)), out)
                /\ Len(out) < Len(Flatten(full))
           ELSE /\ out = Flatten(full)
                /\ Len(Records(out)) = Cardinality(seen)

\* C18: in unsorted mode the set of keys seen is empty at the start, loses
\* no element while run goes on, and after each record decided is the set
\* of the keys of the records decided so far; a record is written exactly
\* when its insertion added an element, so the records written are as many
\* as the set has elements.
C18_SeenIsKeysProcessed ==
    /\ []UnsortedMemory
    /\ [][/\ (api # "none" /\ recs = <<>> /\ pc = "read") => seen = {}
          /\ (~cfg.sorted /\ pc \notin {"done", "start", "config"})
                => seen \subseteq seen']_vars

\* An unsorted run has written two records with different keys and dropped
\* a third whose key is the first one's.
C18_Witness ==
    /\ ~cfg.sorted
    /\ pc = "done"
    /\ result = "Ok"
    /\ kept = <<TRUE, TRUE, FALSE>>
    /\ KeyAt(recs, 3) = KeyAt(recs, 1)
    /\ Cardinality(seen) = 2
    /\ Len(Records(out)) = 2

====
